---- MODULE Spec2Model ----
(***************************************************************************)
(* Account provisioning of the backend: SignupApiService.signup and        *)
(* SignupApiService.signupPending running as concurrent request handlers   *)
(* over the shared repositories (users, user profiles, pending users,      *)
(* registration tickets).  One action per store access of a handler: the   *)
(* handlers suspend at every await, and any other request, the clock or a  *)
(* query that was fired without being awaited can run in between.          *)
(***************************************************************************)
EXTENDS Integers, FiniteSets, Sequences, TLC

\* ------------------------------------------------------------------ values
\* null of an id / timestamp column or local
Null == -1
\* a string field of the request body that is absent
Undefined == "undefined"

\* ------------------------------------------------------------------ bounds
\* the clock advances in steps of TickMs, at most MaxTicks times
MaxTicks == 2
\* at most MaxPendings pending registrations are ever inserted
MaxPendings == 2
\* one step of the clock: ages of 0, exactly 30 and more than 30 minutes occur
TickMs == 1000 * 60 * 30
\* concurrently running request handlers
Procs == {1, 2}

\* ------------------------------------------------------------------ inputs
Usernames == {"Alice", "bob"}
EmailOf(username) == IF username = "Alice" THEN "a@example.com" ELSE "b@example.com"
\* the username and emailAddress of the bodies sent: each person signs up under one
\* name, with their own address or with none
Bodies == {[username |-> u, emailAddress |-> e] : u \in Usernames, e \in {Undefined, "a@example.com", "b@example.com"}}
          \ {b \in [username : Usernames, emailAddress : {"a@example.com", "b@example.com"}] :
                b.emailAddress # EmailOf(b.username)}
InvitationCodes == {Undefined, "t1", "zz"}
Policies == [emailRequiredForSignup : BOOLEAN, disableRegistration : BOOLEAN, enableEmail : BOOLEAN]

\* String.prototype.toLowerCase on the usernames of the model
toLowerCase(s) ==
    IF s = "Alice" THEN "alice"
    ELSE IF s = "Old" THEN "old"
    ELSE IF s = "Admin" THEN "admin"
    ELSE IF s = "Root" THEN "root"
    ELSE s

\* 1000 * 60 * 30: the window of a pending registration and of a provisional claim
Window == 1000 * 60 * 30

\* the tickets issued out of band
TicketIds == {1}
TicketCode(t) == "t1"
\* the account that redeemed a ticket before the service started
Carol == [id |-> 0, username |-> "carol", usernameLower |-> "carol", ticket |-> 1]

\* config.url
ConfigUrl == "https://example.tld"

\* secureRndstr(16, { chars: L_CHARS }): a fresh code per pending registration
secureRndstr(n) == 100 + n
PendingCodes == {secureRndstr(n) : n \in 0..MaxPendings}

\* ticket, in the rows of pending users and users, is history: the ticket the signup
\* that made the row was admitted with
NoPending == [id |-> Null, date |-> Null, code |-> Null, email |-> Undefined, username |-> Undefined,
              ticket |-> Null]

VARIABLES
    instance,       \* metaService.fetch(): the instance settings
    now,            \* Date.now(), in ms
    users,          \* usersRepository: local accounts
    profiles,       \* userProfilesRepository
    pendings,       \* userPendingsRepository
    tickets,        \* registrationTicketsRepository: id -> row
    deleting,       \* ids of userPendingsRepository.delete queries fired, not yet run
    mails,          \* the messages handed to the mail transport (to, link in the body)
    nextUserId,
    nextPendingId,
    call,           \* per request handler: position and locals
    signedIn,       \* history: ids of the pending users whose signupPending returned a session
    probe           \* history: what the signup call under observation read and where it was rejected

vars == <<instance, now, users, profiles, pendings, tickets, deleting, mails, nextUserId, nextPendingId,
          call, signedIn, probe>>

store == <<instance, users, profiles, pendings, tickets, deleting, mails, nextUserId, nextPendingId>>

\* no answer of validateEmailForAccount (it was not called)
NoRes == [available |-> TRUE, reason |-> "none"]
\* no body was read: no request was made, or the request failed
NoJson == [body |-> "none"]
\* no answer of a reachability strategy (none was run)
NoAnswer == [failed |-> FALSE, json |-> NoJson]
\* no rejection of a signup observed yet
NoFirst == [rejected |-> "none", result |-> "none"]
\* no signup call observed
NoProbe == [calls |-> 0, captchaOk |-> TRUE, emailAddress |-> Undefined, res |-> NoRes,
            invitationCode |-> Undefined, username |-> Undefined, rejected |-> "none", before |-> <<>>,
            first |-> NoFirst, pendingUser |-> NoPending,
            ran |-> <<>>, answer |-> NoAnswer, validated |-> [valid |-> TRUE, reason |-> "null"],
            threw |-> FALSE]

\* a handler that is not running; result is what its last call answered
IdleCall == [op |-> "none", pc |-> "idle",
             username |-> Undefined, invitationCode |-> Undefined, emailAddress |-> Undefined,
             ticket |-> Null, pendingUser |-> NoPending, account |-> Null,
             result |-> "none",
             usedAtCall |-> FALSE]   \* history: the ticket of invitationCode was consumed at the call

\* the settings of the instance, and a store in which the ticket is unused or, on an
\* instance without email confirmation, was redeemed (by Carol) when registration
\* was closed
Init ==
    /\ instance \in Policies
    /\ now = 0
    /\ \E redeemed \in (IF instance.emailRequiredForSignup THEN {FALSE} ELSE BOOLEAN) :
          /\ users = IF redeemed THEN {Carol} ELSE {}
          /\ profiles = IF redeemed
                        THEN {[userId |-> Carol.id, email |-> Undefined, emailVerified |-> FALSE, emailVerifyCode |-> Null]}
                        ELSE {}
          /\ tickets = [t \in TicketIds |->
                          [code |-> TicketCode(t), expiresAt |-> Null,
                           usedAt |-> IF redeemed THEN 0 ELSE Null,
                           usedById |-> IF redeemed THEN Carol.id ELSE Null,
                           pendingUserId |-> Null]]
    /\ pendings = {}
    /\ deleting = {}
    /\ mails = {}
    /\ nextUserId = 1
    /\ nextPendingId = 1
    /\ call = [p \in Procs |-> IdleCall]
    /\ signedIn = {}
    /\ probe = NoProbe

\* ------------------------------------------------------------------ helpers
\* the handler returns (or throws): locals of the body die, the answer stays
Reply(c, r) == [IdleCall EXCEPT !.op = c.op, !.result = r, !.usedAtCall = c.usedAtCall]

\* registrationTicketsRepository.findOneBy({ code }): the id of the row, or Null
findTicketByCode(code) ==
    IF \E t \in TicketIds : tickets[t].code = code
    THEN CHOOSE t \in TicketIds : tickets[t].code = code
    ELSE Null

\* pending-path signups that have passed the start and not inserted yet
InFlightInserts ==
    Cardinality({p \in Procs : call[p].pc \in {"s_ticket", "s_username", "s_insert"}
                               /\ instance.emailRequiredForSignup})

\* the handlers are interchangeable: a new request is taken by the first free one
FirstFree(p) == /\ call[p].pc = "idle"
                /\ \A q \in Procs : call[q].pc = "idle" => p <= q

\* ------------------------------------------------------------------ clock
Tick ==
    /\ now < MaxTicks * TickMs
    /\ now' = now + TickMs
    /\ UNCHANGED <<signedIn, store, call>>

\* ------------------------------------------------------------------ collaborators
\* usedUsernamesRepository (usernames of deleted accounts) and instance.preservedUsernames
usedUsernames == {"old", "admin"}
preservedUsernames == {"Admin", "Root"}

\* what the configured reachability strategy of validateEmailForAccount answers
\* (verifyMail, trueMail or validateEmail; { valid: true, reason: null } when active
\* validation is off); reason "null" is null
Validations ==
    {[valid |-> TRUE, reason |-> "null"]}
    \cup {[valid |-> FALSE, reason |-> r] :
              r \in {"regex", "disposable", "mx", "smtp", "network", "blacklist", "format", "null"}}

\* the answers drawn where handlers run concurrently: one that lets the address
\* through, a strategy's refusal and a banned domain (SignupStart goes to the same
\* state after every other refusal)
SomeEmailChecks ==
    {[validated |-> [valid |-> TRUE, reason |-> "null"], isBanned |-> FALSE],
     [validated |-> [valid |-> FALSE, reason |-> "mx"], isBanned |-> FALSE],
     [validated |-> [valid |-> TRUE, reason |-> "null"], isBanned |-> TRUE]}

\* formatReason[validated.reason] ?? null
formatReason(reason) ==
    IF reason = "regex" THEN "format"
    ELSE IF reason \in {"disposable", "mx", "smtp", "network", "blacklist"} THEN reason
    ELSE "null"

\* EmailService.validateEmailForAccount: used by a verified profile, else what the
\* strategy answered (validated), else whether the domain is banned (isBanned)
validateEmailForAccount(emailAddress, validated, isBanned) ==
    LET exist == Cardinality({pr \in profiles : pr.emailVerified /\ pr.email = emailAddress})
    IN  IF exist # 0 THEN [available |-> FALSE, reason |-> "used"]
        ELSE IF ~validated.valid
             THEN [available |-> FALSE,
                   reason |-> IF validated.reason # "null" THEN formatReason(validated.reason) ELSE "null"]
        ELSE IF isBanned THEN [available |-> FALSE, reason |-> "banned"]
        ELSE [available |-> TRUE, reason |-> "null"]

\* the error value the account collaborator fails with (typeof: of the thrown value)
ValidationError(message) == [typeof |-> "object", name |-> "ValidationError", message |-> message]

\* SignupService.signup, the account collaborator: the store holds one local account
\* per lower-cased username; a request it does not accept fails with a message
signupServiceSignup(username, accepted) ==
    IF \E u \in users : u.usernameLower = toLowerCase(username)
    THEN [ok |-> FALSE, error |-> ValidationError("DUPLICATED_USERNAME")]
    ELSE IF ~accepted THEN [ok |-> FALSE, error |-> ValidationError("INVALID")]
    ELSE [ok |-> TRUE, error |-> ValidationError("none")]

\* the catch of both handlers: typeof err === 'string' ? err : (err as Error).toString();
\* Error.prototype.toString is the name, ": " and the message
errToString(err) ==
    IF err.typeof = "string" THEN err.message ELSE err.name \o ": " \o err.message

\* what findOneByOrFail fails with when no row matches
EntityNotFoundError(entity) ==
    [typeof |-> "object", name |-> "EntityNotFoundError",
     message |-> "Could not find any entity of type " \o entity]

\* new FastifyReplyError(400, message): an Error with that message
FastifyReplyError(message) == [typeof |-> "object", name |-> "Error", message |-> message]

\* a catch that answers without the cause
catchReplyBare(err) == "400"

\* throw new FastifyReplyError(400, ...) in the catch of both handlers: the answer
catchReply(err) == "400:" \o errToString(err)

\* the rows SignupService.signup writes for a new local account
insertUser(username, ticket) ==
    /\ users' = users \cup {[id |-> nextUserId, username |-> username,
                             usernameLower |-> toLowerCase(username), ticket |-> ticket]}
    /\ profiles' = profiles \cup {[userId |-> nextUserId, email |-> Undefined, emailVerified |-> FALSE,
                                   emailVerifyCode |-> Null]}
    /\ nextUserId' = nextUserId + 1

\* ------------------------------------------------------------------ signup
\* every signup taken as one of an instance without email confirmation
AfterTicketGateDirect == "s_create"

\* where a signup goes once the email gate (and then the ticket gate) has let it through
AfterTicketGate == IF instance.emailRequiredForSignup THEN "s_username" ELSE "s_create"
AfterEmailGate == IF instance.disableRegistration THEN "s_ticket" ELSE AfterTicketGate

\* the checks before the first store access with an email gate that rejects only an
\* answer that names a reason
StartRejectedOnReason(captchaOk, emailAddress, res, invitationCode) ==
    IF ~captchaOk THEN "captcha"
    ELSE IF instance.emailRequiredForSignup /\ (emailAddress = Undefined \/ res.reason # "null") THEN "email"
    ELSE IF instance.disableRegistration /\ invitationCode = Undefined THEN "code"
    ELSE "none"

\* the checks of signup before its first store access, in their order: which one
\* rejects the call ("none": the call goes on); res is what validateEmailForAccount
\* answered
StartRejected(captchaOk, emailAddress, res, invitationCode) ==
    IF ~captchaOk THEN "captcha"
    ELSE IF instance.emailRequiredForSignup /\ (emailAddress = Undefined \/ ~res.available) THEN "email"
    ELSE IF instance.disableRegistration /\ invitationCode = Undefined THEN "code"
    ELSE "none"

\* a captcha service's rejection is thrown on as FastifyReplyError(400, err); the email
\* gate and the missing invitation code answer reply.code(400)
StartResponse(rejected) == IF rejected = "captcha" THEN "400:captcha" ELSE "400"

\* signup, from the call to its first store access: the captcha checks, the email gate
\* and the check that an invitation code is present
SignupStart(p, username, invitationCode, emailAddress, captchaOk, validated, isBanned) ==
    /\ FirstFree(p)
    /\ instance.emailRequiredForSignup => nextPendingId + InFlightInserts <= MaxPendings
    /\ LET c == [IdleCall EXCEPT !.op = "signup", !.username = username,
                                 !.invitationCode = invitationCode, !.emailAddress = emailAddress,
                                 !.usedAtCall = \E t \in TicketIds : /\ tickets[t].code = invitationCode
                                                                     /\ tickets[t].usedById # Null]
           res == validateEmailForAccount(emailAddress, validated, isBanned)
           rejected == StartRejected(captchaOk, emailAddress, res, invitationCode)
       IN  call' = [call EXCEPT ![p] =
                IF rejected # "none" THEN Reply(c, StartResponse(rejected))
                ELSE [c EXCEPT !.pc = AfterEmailGate]]
    /\ UNCHANGED <<signedIn, now, store>>

\* signup when validateEmailForAccount fails instead of answering (a strategy whose
\* failed request is thrown on): the await of the email gate is in no try, the failure
\* leaves the handler before its first store access and the request is answered 500
SignupCheckThrows(p, username, invitationCode, emailAddress) ==
    /\ FirstFree(p)
    /\ instance.emailRequiredForSignup
    /\ emailAddress # Undefined
    /\ ~\E pr \in profiles : pr.emailVerified /\ pr.email = emailAddress
    /\ LET c == [IdleCall EXCEPT !.op = "signup", !.username = username,
                                 !.invitationCode = invitationCode, !.emailAddress = emailAddress,
                                 !.usedAtCall = \E t \in TicketIds : /\ tickets[t].code = invitationCode
                                                                     /\ tickets[t].usedById # Null]
       IN  call' = [call EXCEPT ![p] = Reply(c, "500")]
    /\ UNCHANGED <<signedIn, now, store>>

\* the ticket gate without its checks of usedBy
TicketRejectedIgnoringUsedBy(t) ==
    \/ t = Null
    \/ tickets[t].expiresAt # Null /\ tickets[t].expiresAt < now
    \/ /\ instance.emailRequiredForSignup
       /\ tickets[t].usedAt # Null /\ tickets[t].usedAt + Window > now
    \/ /\ ~instance.emailRequiredForSignup
       /\ tickets[t].usedAt # Null

\* the ticket gate without the check of expiresAt
TicketRejectedNeverExpires(t) ==
    \/ t = Null
    \/ tickets[t].usedById # Null
    \/ /\ instance.emailRequiredForSignup
       /\ \/ tickets[t].usedById # Null
          \/ tickets[t].usedAt # Null /\ tickets[t].usedAt + Window > now
    \/ /\ ~instance.emailRequiredForSignup
       /\ tickets[t].usedAt # Null

\* the ticket gate with a claim that is still held when it is exactly 30 minutes old
TicketRejectedWindowClosed(t) ==
    \/ t = Null
    \/ tickets[t].usedById # Null
    \/ tickets[t].expiresAt # Null /\ tickets[t].expiresAt < now
    \/ /\ instance.emailRequiredForSignup
       /\ \/ tickets[t].usedById # Null
          \/ tickets[t].usedAt # Null /\ tickets[t].usedAt + Window >= now
    \/ /\ ~instance.emailRequiredForSignup
       /\ tickets[t].usedAt # Null

\* the ticket gate that looks at usedAt only when email confirmation is required
TicketRejectedUsedAtIgnored(t) ==
    \/ t = Null
    \/ tickets[t].usedById # Null
    \/ tickets[t].expiresAt # Null /\ tickets[t].expiresAt < now
    \/ /\ instance.emailRequiredForSignup
       /\ \/ tickets[t].usedById # Null
          \/ tickets[t].usedAt # Null /\ tickets[t].usedAt + Window > now

\* the ticket gate on the row read: TRUE when the signup is rejected
TicketRejected(t) ==
    \/ t = Null
    \/ tickets[t].usedById # Null
    \/ tickets[t].expiresAt # Null /\ tickets[t].expiresAt < now
    \/ /\ instance.emailRequiredForSignup
       /\ \/ tickets[t].usedById # Null
          \/ tickets[t].usedAt # Null /\ tickets[t].usedAt + Window > now
    \/ /\ ~instance.emailRequiredForSignup
       /\ tickets[t].usedAt # Null

\* registrationTicketsRepository.findOneBy({ code }) and the checks on the row
SignupTicket(p) ==
    /\ call[p].pc = "s_ticket"
    /\ LET t == findTicketByCode(call[p].invitationCode)
       IN  call' = [call EXCEPT ![p] =
                IF TicketRejected(t) THEN Reply(call[p], "400")
                ELSE [call[p] EXCEPT !.ticket = t, !.pc = AfterTicketGate]]
    /\ UNCHANGED <<signedIn, now, store>>

\* the username checks with the submitted name looked up as it is among the used names
UsernameRejectedCaseSensitive(username) ==
    IF \E u \in users : u.usernameLower = toLowerCase(username) THEN "DUPLICATED_USERNAME"
    ELSE IF username \in usedUsernames THEN "USED_USERNAME"
    ELSE IF toLowerCase(username) \in {toLowerCase(x) : x \in preservedUsernames} THEN "DENIED_USERNAME"
    ELSE "none"

\* the username checks with the reserved names tested before the used names
UsernameRejectedReservedFirst(username) ==
    IF \E u \in users : u.usernameLower = toLowerCase(username) THEN "DUPLICATED_USERNAME"
    ELSE IF toLowerCase(username) \in {toLowerCase(x) : x \in preservedUsernames} THEN "DENIED_USERNAME"
    ELSE IF toLowerCase(username) \in usedUsernames THEN "USED_USERNAME"
    ELSE "none"

\* the username checks of the pending path: the cause of the rejection, or "none"
UsernameRejected(username) ==
    IF \E u \in users : u.usernameLower = toLowerCase(username) THEN "DUPLICATED_USERNAME"
    ELSE IF toLowerCase(username) \in usedUsernames THEN "USED_USERNAME"
    ELSE IF toLowerCase(username) \in {toLowerCase(x) : x \in preservedUsernames} THEN "DENIED_USERNAME"
    ELSE "none"

\* the username checks made after the pending registration is inserted
SignupUsernameInsertFirst(p) ==
    /\ call[p].pc = "s_username"
    /\ LET cause == UsernameRejected(call[p].username)
           pendingUser == [id |-> nextPendingId, date |-> now, code |-> secureRndstr(nextPendingId),
                           email |-> call[p].emailAddress, username |-> call[p].username,
                           ticket |-> call[p].ticket]
       IN  /\ pendings' = pendings \cup {pendingUser}
           /\ call' = [call EXCEPT ![p] =
                   IF cause # "none" THEN Reply(call[p], "400:" \o cause)
                   ELSE [call[p] EXCEPT !.pendingUser = pendingUser, !.pc = "s_claim"]]
    /\ nextPendingId' = nextPendingId + 1
    /\ UNCHANGED <<signedIn, instance, now, users, profiles, tickets, deleting, mails, nextUserId>>

SignupUsername(p) ==
    /\ call[p].pc = "s_username"
    /\ LET cause == UsernameRejected(call[p].username)
       IN  call' = [call EXCEPT ![p] =
                IF cause # "none" THEN Reply(call[p], "400:" \o cause)
                ELSE [call[p] EXCEPT !.pc = "s_insert"]]
    /\ UNCHANGED <<signedIn, now, store>>

\* userPendingsRepository.insert with a fresh id (its date is the creation instant) and code
SignupInsert(p) ==
    /\ call[p].pc = "s_insert"
    /\ LET pendingUser == [id |-> nextPendingId, date |-> now, code |-> secureRndstr(nextPendingId),
                           email |-> call[p].emailAddress, username |-> call[p].username,
                           ticket |-> call[p].ticket]
       IN  /\ pendings' = pendings \cup {pendingUser}
           /\ call' = [call EXCEPT ![p] = [call[p] EXCEPT !.pendingUser = pendingUser, !.pc = "s_claim"]]
    /\ nextPendingId' = nextPendingId + 1
    /\ UNCHANGED <<signedIn, instance, now, users, profiles, tickets, deleting, mails, nextUserId>>

\* `${this.config.url}/signup-complete/${code}`: the parts of the template
signupCompleteLink(code) == [url |-> ConfigUrl, path |-> "/signup-complete/", code |-> code]

\* EmailService.sendEmail: the messages it hands to transporter.sendMail
sendEmail(to, link) == IF ~instance.enableEmail THEN {} ELSE {[to |-> to, link |-> link]}

\* a provisional claim that rewrites the whole usage of the ticket
claimTicketResettingUsedBy(t, pendingUser) ==
    [tickets EXCEPT ![t].usedAt = now, ![t].pendingUserId = pendingUser.id, ![t].usedById = Null]

\* a provisional claim that links the pending registration and leaves usedAt to a later write
claimTicketLinkOnly(t, pendingUser) ==
    [tickets EXCEPT ![t].pendingUserId = pendingUser.id]

\* the provisional claim written on the ticket the signup was admitted with
claimTicket(t, pendingUser) ==
    [tickets EXCEPT ![t].usedAt = now, ![t].pendingUserId = pendingUser.id]

\* after the insert: the mail is handed to sendEmail (not awaited), the ticket is
\* claimed with the current time and the call answers 204
SignupClaim(p) ==
    /\ call[p].pc = "s_claim"
    /\ mails' = mails \cup sendEmail(call[p].emailAddress, signupCompleteLink(call[p].pendingUser.code))
    /\ tickets' = IF call[p].ticket # Null THEN claimTicket(call[p].ticket, call[p].pendingUser)
                  ELSE tickets
    /\ call' = [call EXCEPT ![p] = Reply(call[p], "204")]
    /\ UNCHANGED <<signedIn, instance, now, users, profiles, pendings, deleting, nextUserId, nextPendingId>>

\* the direct path with the ticket stamped before the account is created
SignupCreateStampingFirst(p, accepted) ==
    /\ call[p].pc = "s_create"
    /\ tickets' = IF call[p].ticket # Null THEN [tickets EXCEPT ![call[p].ticket].usedAt = now]
                  ELSE tickets
    /\ LET r == signupServiceSignup(call[p].username, accepted)
       IN  IF r.ok
           THEN /\ insertUser(call[p].username, call[p].ticket)
                /\ call' = [call EXCEPT ![p] =
                        IF call[p].ticket # Null
                        THEN [call[p] EXCEPT !.account = nextUserId, !.pc = "s_consume"]
                        ELSE Reply([call[p] EXCEPT !.account = nextUserId], "200")]
           ELSE /\ call' = [call EXCEPT ![p] = Reply(call[p], catchReply(r.error))]
                /\ UNCHANGED <<users, profiles, nextUserId>>
    /\ UNCHANGED <<signedIn, instance, now, pendings, deleting, mails, nextPendingId>>

\* the direct path: signupService.signup creates the account, or throws
SignupCreate(p, accepted) ==
    /\ call[p].pc = "s_create"
    /\ LET r == signupServiceSignup(call[p].username, accepted)
       IN  IF r.ok
           THEN /\ insertUser(call[p].username, call[p].ticket)
                /\ call' = [call EXCEPT ![p] =
                        IF call[p].ticket # Null
                        THEN [call[p] EXCEPT !.account = nextUserId, !.pc = "s_consume"]
                        ELSE Reply([call[p] EXCEPT !.account = nextUserId], "200")]
           ELSE /\ call' = [call EXCEPT ![p] = Reply(call[p], catchReply(r.error))]
                /\ UNCHANGED <<users, profiles, nextUserId>>
    /\ UNCHANGED <<signedIn, instance, now, pendings, tickets, deleting, mails, nextPendingId>>

\* the ticket is marked consumed by the account just created
consumeTicket(t, account) ==
    [tickets EXCEPT ![t].usedAt = now, ![t].usedById = account]

SignupConsume(p) ==
    /\ call[p].pc = "s_consume"
    /\ tickets' = consumeTicket(call[p].ticket, call[p].account)
    /\ call' = [call EXCEPT ![p] = Reply(call[p], "200")]
    /\ UNCHANGED <<signedIn, instance, now, users, profiles, pendings, deleting, mails, nextUserId, nextPendingId>>

\* ------------------------------------------------------------------ signupPending
\* the codes a client can send: those of the links mailed so far, and one never issued
KnownCodes == {m.link.code : m \in mails} \cup {secureRndstr(0)}

\* userPendingsRepository.findOneByOrFail({ code })
PendingLookup(p, code) ==
    /\ FirstFree(p)
    /\ code \in KnownCodes
    /\ LET c == [IdleCall EXCEPT !.op = "signupPending"]
       IN  call' = [call EXCEPT ![p] =
                IF \E r \in pendings : r.code = code
                THEN [c EXCEPT !.pendingUser = CHOOSE r \in pendings : r.code = code,
                               !.pc = "p_validate"]
                ELSE Reply(c, catchReply(EntityNotFoundError("UserPending")))]
    /\ UNCHANGED <<signedIn, now, store>>

\* idService.parse(pendingUser.id).date.getTime() + (1000 * 60 * 30) < Date.now()
isExpired(pendingUser) == pendingUser.date + Window < now

\* the expiry check with the expired record deleted on the way out
PendingValidateDeletingExpired(p) ==
    /\ call[p].pc = "p_validate"
    /\ call' = [call EXCEPT ![p] =
            IF isExpired(call[p].pendingUser) THEN Reply(call[p], catchReply(FastifyReplyError("EXPIRED")))
            ELSE [call[p] EXCEPT !.pc = "p_create"]]
    /\ pendings' = IF isExpired(call[p].pendingUser) THEN pendings \ {call[p].pendingUser} ELSE pendings
    /\ UNCHANGED <<signedIn, instance, now, users, profiles, tickets, deleting, mails, nextUserId, nextPendingId>>

\* the expiry check of signupPending: an expired record ends the call with EXPIRED
PendingValidate(p) ==
    /\ call[p].pc = "p_validate"
    /\ call' = [call EXCEPT ![p] =
            IF isExpired(call[p].pendingUser) THEN Reply(call[p], catchReply(FastifyReplyError("EXPIRED")))
            ELSE [call[p] EXCEPT !.pc = "p_create"]]
    /\ UNCHANGED <<signedIn, now, store>>

\* signupService.signup with the stored username; then the delete of the pending
\* record is fired and not awaited
PendingCreate(p, accepted) ==
    /\ call[p].pc = "p_create"
    /\ LET r == signupServiceSignup(call[p].pendingUser.username, accepted)
       IN  IF r.ok
           THEN /\ insertUser(call[p].pendingUser.username, call[p].pendingUser.ticket)
                /\ deleting' = deleting \cup {call[p].pendingUser.id}
                /\ call' = [call EXCEPT ![p] = [call[p] EXCEPT !.account = nextUserId, !.pc = "p_profile"]]
           ELSE /\ call' = [call EXCEPT ![p] = Reply(call[p], catchReply(r.error))]
                /\ UNCHANGED <<users, profiles, nextUserId, deleting>>
    /\ UNCHANGED <<signedIn, instance, now, pendings, tickets, mails, nextPendingId>>

\* userPendingsRepository.delete({ id }) reaches the store
PendingDelete(id) ==
    /\ id \in deleting
    /\ deleting' = deleting \ {id}
    /\ pendings' = {r \in pendings : r.id # id}
    /\ UNCHANGED <<signedIn, instance, now, users, profiles, tickets, mails, nextUserId, nextPendingId, call>>

\* the profile update of signupPending that leaves the address unverified
verifiedProfileUnverified(profile, pendingUser) ==
    [profile EXCEPT !.email = pendingUser.email, !.emailVerifyCode = Null]

\* userProfilesRepository.update: email, emailVerified: true, emailVerifyCode: null
verifiedProfile(profile, pendingUser) ==
    [profile EXCEPT !.email = pendingUser.email, !.emailVerified = TRUE, !.emailVerifyCode = Null]

\* userProfilesRepository.findOneByOrFail({ userId }), then the profile of the new
\* account gets the pending record's email, verified
PendingProfile(p) ==
    /\ call[p].pc = "p_profile"
    /\ IF \E pr \in profiles : pr.userId = call[p].account
       THEN /\ profiles' = {IF pr.userId = call[p].account
                            THEN verifiedProfile(pr, call[p].pendingUser)
                            ELSE pr : pr \in profiles}
            /\ call' = [call EXCEPT ![p] = [call[p] EXCEPT !.pc = "p_ticket"]]
       ELSE /\ call' = [call EXCEPT ![p] = Reply(call[p], catchReply(EntityNotFoundError("UserProfile")))]
            /\ UNCHANGED profiles
    /\ UNCHANGED <<signedIn, instance, now, users, pendings, tickets, deleting, mails, nextUserId, nextPendingId>>

\* registrationTicketsRepository.findOneBy({ pendingUserId }); without a ticket the
\* call signs the account in and returns
PendingTicket(p) ==
    /\ call[p].pc = "p_ticket"
    /\ LET found == {t \in DOMAIN tickets : tickets[t].pendingUserId = call[p].pendingUser.id}
       IN  call' = [call EXCEPT ![p] =
                IF found # {}
                THEN [call[p] EXCEPT !.ticket = CHOOSE t \in found : TRUE, !.pc = "p_reconcile"]
                ELSE Reply(call[p], "signin")]
    /\ signedIn' = IF call'[p].pc = "idle" THEN signedIn \cup {call[p].pendingUser.id} ELSE signedIn
    /\ UNCHANGED <<now, store>>

\* a finalization that stamps the ticket again
reconcileTicketRestamped(t, account) ==
    [tickets EXCEPT ![t].usedAt = now, ![t].usedById = account, ![t].pendingUserId = Null]

\* the ticket that referenced the pending record is finalized
reconcileTicket(t, account) ==
    [tickets EXCEPT ![t].usedById = account, ![t].pendingUserId = Null]

PendingReconcile(p) ==
    /\ call[p].pc = "p_reconcile"
    /\ tickets' = reconcileTicket(call[p].ticket, call[p].account)
    /\ call' = [call EXCEPT ![p] = Reply(call[p], "signin")]
    /\ signedIn' = signedIn \cup {call[p].pendingUser.id}
    /\ UNCHANGED <<instance, now, users, profiles, pendings, deleting, mails, nextUserId, nextPendingId>>

\* ------------------------------------------------------------------ specification
Next ==
    \/ Tick /\ UNCHANGED probe
    \/ \E p \in Procs, body \in Bodies, invitationCode \in InvitationCodes,
          captchaOk \in BOOLEAN, check \in SomeEmailChecks :
            SignupStart(p, body.username, invitationCode, body.emailAddress, captchaOk,
                        check.validated, check.isBanned) /\ UNCHANGED probe
    \/ \E p \in Procs, body \in Bodies, invitationCode \in InvitationCodes :
            SignupCheckThrows(p, body.username, invitationCode, body.emailAddress) /\ UNCHANGED probe
    \/ \E p \in Procs : SignupTicket(p) /\ UNCHANGED probe
    \/ \E p \in Procs : SignupUsername(p) /\ UNCHANGED probe
    \/ \E p \in Procs : SignupInsert(p) /\ UNCHANGED probe
    \/ \E p \in Procs : SignupClaim(p) /\ UNCHANGED probe
    \/ \E p \in Procs, accepted \in BOOLEAN : SignupCreate(p, accepted) /\ UNCHANGED probe
    \/ \E p \in Procs : SignupConsume(p) /\ UNCHANGED probe
    \/ \E p \in Procs, code \in PendingCodes : PendingLookup(p, code) /\ UNCHANGED probe
    \/ \E p \in Procs : PendingValidate(p) /\ UNCHANGED probe
    \/ \E p \in Procs, accepted \in BOOLEAN : PendingCreate(p, accepted) /\ UNCHANGED probe
    \/ \E id \in 1..MaxPendings : PendingDelete(id) /\ UNCHANGED probe
    \/ \E p \in Procs : PendingProfile(p) /\ UNCHANGED probe
    \/ \E p \in Procs : PendingTicket(p) /\ UNCHANGED probe
    \/ \E p \in Procs : PendingReconcile(p) /\ UNCHANGED probe

Spec == Init /\ [][Next]_vars

\* ------------------------------------------------------------------ one address, two names
\* The handlers of Spec on an open instance that requires email confirmation and
\* sends mail, with both people signing up with the same email address.  No signup
\* presents a ticket, so signupPending never finds one to finalize.
SharedEmailBodies == {[username |-> u, emailAddress |-> "a@example.com"] : u \in Usernames}

SharedEmailInit ==
    /\ Init
    /\ instance = [emailRequiredForSignup |-> TRUE, disableRegistration |-> FALSE, enableEmail |-> TRUE]

SharedEmailNext ==
    \/ Tick /\ UNCHANGED probe
    \/ \E p \in Procs, body \in SharedEmailBodies, captchaOk \in BOOLEAN, check \in SomeEmailChecks :
            SignupStart(p, body.username, Undefined, body.emailAddress, captchaOk,
                        check.validated, check.isBanned) /\ UNCHANGED probe
    \/ \E p \in Procs, body \in SharedEmailBodies :
            SignupCheckThrows(p, body.username, Undefined, body.emailAddress) /\ UNCHANGED probe
    \/ \E p \in Procs : SignupUsername(p) /\ UNCHANGED probe
    \/ \E p \in Procs : SignupInsert(p) /\ UNCHANGED probe
    \/ \E p \in Procs : SignupClaim(p) /\ UNCHANGED probe
    \/ \E p \in Procs, code \in PendingCodes : PendingLookup(p, code) /\ UNCHANGED probe
    \/ \E p \in Procs : PendingValidate(p) /\ UNCHANGED probe
    \/ \E p \in Procs, accepted \in BOOLEAN : PendingCreate(p, accepted) /\ UNCHANGED probe
    \/ \E id \in 1..MaxPendings : PendingDelete(id) /\ UNCHANGED probe
    \/ \E p \in Procs : PendingProfile(p) /\ UNCHANGED probe
    \/ \E p \in Procs : PendingTicket(p) /\ UNCHANGED probe

SharedEmailSpec == SharedEmailInit /\ [][SharedEmailNext]_vars

\* ------------------------------------------------------------------ one handler, any store
\* Signup calls made one after the other (handler 1), against every store and clock
\* of a family and with every request body and answer of the collaborators, up to the
\* first call that is admitted.  probe records what the running call reads.
GateUsernames == {"Alice", "alice", "bob", "Old", "old", "Admin", "admin", "root"}
GateEmails == {Undefined, "a@example.com"}
\* the clock around the end of the window, to the millisecond
GateTimes == {Window - 1, Window, Window + 1}
\* the local account there is besides Carol: none, or one of these names
GateAccounts == {"none", "alice", "old", "admin"}
\* the answers of the strategy and of the banned-domain list to an address; they are
\* asked only when the instance requires an email address and the body has one
EmailChecks(emailAddress) ==
    IF instance.emailRequiredForSignup /\ emailAddress # Undefined
    THEN [validated : Validations, isBanned : BOOLEAN]
    ELSE {[validated |-> [valid |-> TRUE, reason |-> "null"], isBanned |-> FALSE]}
\* the pending registration that holds the provisional claim of the ticket
Bob == [id |-> 1, date |-> 0, code |-> secureRndstr(1), email |-> "b@example.com", username |-> "bob",
        ticket |-> 1]

GateInit ==
    /\ instance \in Policies
    /\ now \in GateTimes
    /\ \E usage \in {"unused", "claimed", "consumed"}, expiresAt \in {Null, Window},
          existing \in GateAccounts, emailVerified \in BOOLEAN :
          /\ existing # "alice" => ~emailVerified
          /\ users = (IF usage = "consumed" THEN {Carol} ELSE {})
                      \cup (IF existing = "none" THEN {}
                            ELSE {[id |-> 1, username |-> existing, usernameLower |-> existing,
                                   ticket |-> Null]})
          /\ profiles = (IF usage = "consumed"
                         THEN {[userId |-> Carol.id, email |-> Undefined, emailVerified |-> FALSE, emailVerifyCode |-> Null]}
                         ELSE {})
                         \cup (IF existing = "none" THEN {}
                               ELSE {[userId |-> 1,
                                      email |-> IF emailVerified THEN "a@example.com" ELSE Undefined,
                                      emailVerified |-> emailVerified, emailVerifyCode |-> Null]})
          /\ tickets = [t \in TicketIds |->
                          [code |-> TicketCode(t), expiresAt |-> expiresAt,
                           usedAt |-> IF usage = "unused" THEN Null ELSE 0,
                           usedById |-> IF usage = "consumed" THEN Carol.id ELSE Null,
                           pendingUserId |-> IF usage = "claimed" THEN Bob.id ELSE Null]]
          /\ pendings = IF usage = "claimed" THEN {Bob} ELSE {}
          /\ mails = IF usage = "claimed" THEN sendEmail(Bob.email, signupCompleteLink(Bob.code)) ELSE {}
          /\ nextPendingId = IF usage = "claimed" THEN 2 ELSE 1
    /\ deleting = {}
    /\ nextUserId = 2
    /\ call = [p \in Procs |-> IdleCall]
    /\ signedIn = {}
    /\ probe = NoProbe

\* a signup was admitted: it answered 204 or 200
Admitted == call[1].result \in {"204", "200"}

\* the first rejection seen stays in probe.first
FirstRejection(rejected, result) ==
    IF probe.first = NoFirst /\ rejected # "none" THEN [rejected |-> rejected, result |-> result]
    ELSE probe.first

GateStart(username, invitationCode, emailAddress, captchaOk, validated, isBanned) ==
    /\ ~Admitted
    /\ SignupStart(1, username, invitationCode, emailAddress, captchaOk, validated, isBanned)
    /\ LET res == IF captchaOk /\ instance.emailRequiredForSignup /\ emailAddress # Undefined
                  THEN validateEmailForAccount(emailAddress, validated, isBanned)
                  ELSE NoRes
           rejected == StartRejected(captchaOk, emailAddress, res, invitationCode)
       IN  probe' = [calls |-> probe.calls + 1,
                     captchaOk |-> captchaOk,
                     emailAddress |-> IF captchaOk /\ instance.emailRequiredForSignup
                                      THEN emailAddress ELSE Undefined,
                     res |-> res,
                     invitationCode |-> IF rejected \in {"code", "none"} /\ instance.disableRegistration
                                        THEN invitationCode ELSE Undefined,
                     username |-> IF rejected = "none" THEN username ELSE Undefined,
                     rejected |-> rejected,
                     before |-> <<users, pendings, tickets, mails>>,
                     first |-> FirstRejection(rejected, call'[1].result),
                     pendingUser |-> NoPending,
                     ran |-> NoProbe.ran, answer |-> NoAnswer, validated |-> NoProbe.validated,
                     threw |-> FALSE]

\* a call whose email check fails instead of answering
GateCheckThrows(username, invitationCode, emailAddress) ==
    /\ ~Admitted
    /\ SignupCheckThrows(1, username, invitationCode, emailAddress)
    /\ probe' = [NoProbe EXCEPT !.calls = probe.calls + 1,
                                !.captchaOk = TRUE,
                                !.emailAddress = emailAddress,
                                !.rejected = "check",
                                !.before = <<users, pendings, tickets, mails>>,
                                !.first = FirstRejection("check", "500"),
                                !.threw = TRUE]

\* a call with a body, past the captcha, and a call the captcha service rejects
GateCall ==
    \/ \E username \in GateUsernames, invitationCode \in InvitationCodes, emailAddress \in GateEmails :
          \E check \in EmailChecks(emailAddress) :
            GateStart(username, invitationCode, emailAddress, TRUE, check.validated, check.isBanned)
    \/ GateStart("bob", Undefined, Undefined, FALSE, [valid |-> TRUE, reason |-> "null"], FALSE)

GateTicket ==
    /\ SignupTicket(1)
    /\ LET rejected == IF call'[1].pc = "idle" THEN "ticket" ELSE "none"
       IN  probe' = [probe EXCEPT !.rejected = rejected,
                                  !.first = FirstRejection(rejected, call'[1].result)]

GateUsername ==
    /\ SignupUsername(1)
    /\ LET rejected == UsernameRejected(call[1].username)
       IN  probe' = [probe EXCEPT !.rejected = rejected,
                                  !.first = FirstRejection(rejected, call'[1].result)]

\* the steps of the call after its start
GateRest ==
    \/ GateTicket
    \/ GateUsername
    \/ SignupInsert(1) /\ UNCHANGED probe
    \/ SignupClaim(1) /\ UNCHANGED probe
    \/ \E accepted \in BOOLEAN : SignupCreate(1, accepted) /\ UNCHANGED probe
    \/ SignupConsume(1) /\ UNCHANGED probe

\* one call
GateNext ==
    \/ probe.calls < 1 /\ GateCall
    \/ /\ probe.calls < 1
       /\ \E username \in GateUsernames, invitationCode \in InvitationCodes, emailAddress \in GateEmails :
             GateCheckThrows(username, invitationCode, emailAddress)
    \/ GateRest

GateSpec == GateInit /\ [][GateNext]_vars

\* a call, and after its rejection a second one
RetryNext ==
    \/ probe.calls < 2 /\ GateCall
    \/ GateRest

RetrySpec == GateInit /\ [][RetryNext]_vars

\* ------------------------------------------------------------------ one completion, any store
\* One signupPending call (handler 1) and no other request, against every store and
\* clock of a family: the pending registration of Bob, of any age around the window,
\* with or without the provisional claim of ticket 1, beside a second ticket in any
\* usage and with or without an account that took Bob's username.  The clock does
\* not advance during the call.  A handler that can take a step takes it, and a
\* delete that was fired reaches the store.
CompleteTicketIds == {1, 2}
CompleteTimes == {0, Window - 1, Window, Window + 1}
\* the pending registration that holds the provisional claim of the second ticket
Dave == [id |-> 2, date |-> 0, code |-> secureRndstr(2), email |-> "d@example.com", username |-> "dave",
         ticket |-> 2]

CompleteInit ==
    /\ instance \in Policies
    /\ now \in CompleteTimes
    /\ \E linked \in BOOLEAN, other \in {"unused", "claimed", "consumed"}, existing \in {"none", "bob"} :
          /\ pendings = {IF linked THEN Bob ELSE [Bob EXCEPT !.ticket = Null]}
                         \cup (IF other = "claimed" THEN {Dave} ELSE {})
          /\ tickets = [t \in CompleteTicketIds |->
                          IF t = 1
                          THEN [code |-> "t1", expiresAt |-> Null,
                                usedAt |-> IF linked THEN 0 ELSE Null,
                                usedById |-> Null,
                                pendingUserId |-> IF linked THEN Bob.id ELSE Null]
                          ELSE [code |-> "t2", expiresAt |-> Null,
                                usedAt |-> IF other = "unused" THEN Null ELSE 0,
                                usedById |-> IF other = "consumed" THEN Carol.id ELSE Null,
                                pendingUserId |-> IF other = "claimed" THEN Dave.id ELSE Null]]
          /\ users = (IF other = "consumed" THEN {[Carol EXCEPT !.ticket = 2]} ELSE {})
                      \cup (IF existing = "none" THEN {}
                            ELSE {[id |-> 1, username |-> existing, usernameLower |-> existing,
                                   ticket |-> Null]})
          /\ profiles = (IF other = "consumed"
                         THEN {[userId |-> Carol.id, email |-> Undefined, emailVerified |-> FALSE,
                                emailVerifyCode |-> Null]}
                         ELSE {})
                         \cup (IF existing = "none" THEN {}
                               ELSE {[userId |-> 1, email |-> Undefined, emailVerified |-> FALSE,
                                      emailVerifyCode |-> Null]})
          /\ mails = sendEmail(Bob.email, signupCompleteLink(Bob.code))
                      \cup (IF other = "claimed" THEN sendEmail(Dave.email, signupCompleteLink(Dave.code))
                            ELSE {})
    /\ deleting = {}
    /\ nextUserId = 2
    /\ nextPendingId = 3
    /\ call = [p \in Procs |-> IdleCall]
    /\ signedIn = {}
    /\ probe = NoProbe

\* the call; probe keeps the store it met and the pending registration it found
CompleteCall ==
    /\ probe.calls < 1
    /\ \E code \in PendingCodes : PendingLookup(1, code)
    /\ probe' = [NoProbe EXCEPT !.calls = 1,
                                !.before = <<users, pendings, tickets, mails, profiles>>,
                                !.pendingUser = call'[1].pendingUser]

\* the steps of the call after the lookup
CompleteRest ==
    \/ PendingValidate(1) /\ UNCHANGED probe
    \/ \E accepted \in BOOLEAN : PendingCreate(1, accepted) /\ UNCHANGED probe
    \/ PendingProfile(1) /\ UNCHANGED probe
    \/ PendingTicket(1) /\ UNCHANGED probe
    \/ PendingReconcile(1) /\ UNCHANGED probe

CompleteDelete == \E id \in 1..MaxPendings : PendingDelete(id) /\ UNCHANGED probe

CompleteNext ==
    \/ CompleteCall
    \/ CompleteRest
    \/ CompleteDelete

CompleteSpec ==
    CompleteInit /\ [][CompleteNext]_vars /\ WF_vars(CompleteRest) /\ WF_vars(CompleteDelete)

\* ------------------------------------------------------------------ the reachability check
\* One validateEmailForAccount call against every setting of the instance, with every
\* body the provider of the strategy that runs can answer with.  A JSON value is kept
\* as its text; a field that is absent is Undefined.
JsNull == "null"

\* !v on a value of a body
falsy(v) == v \in {Undefined, "null", "false", "0", ""}

\* the settings validateEmailForAccount reads
CheckMetas ==
    [enableActiveEmailValidation : BOOLEAN,
     enableVerifymailApi : BOOLEAN, verifymailAuthKey : {JsNull, "keyA"},
     enableTruemailApi : BOOLEAN, truemailInstance : {JsNull, "", "https://truemail.example"},
     truemailAuthKey : {JsNull, "keyB"},
     emailRequiredForSignup : {TRUE}, disableRegistration : {FALSE}, enableEmail : {TRUE}]

\* the bodies the provider of strategy A (verifymail.io) answers with
VerifymailBodies ==
    [message : {Undefined, "quota exceeded"},
     email_address : {Undefined, "a@example.com"},
     deliverable_email : {Undefined, "true", "false"},
     disposable : {Undefined, "true", "false"},
     mx : {Undefined, "true", "false"},
     domain : {Undefined, "example.com"}]

\* Object.keys(json)
keys(json) == {k \in DOMAIN json : json[k] # Undefined}

\* strategy A with the format outcome decided by the deliverability flag
verifyMailFormatByDeliverable(json) ==
    IF Cardinality(keys(json)) = 1 /\ "message" \in keys(json) THEN [valid |-> FALSE, reason |-> "null"]
    ELSE IF json.deliverable_email = Undefined THEN [valid |-> FALSE, reason |-> "format"]
    ELSE IF falsy(json.deliverable_email) THEN [valid |-> FALSE, reason |-> "smtp"]
    ELSE IF ~falsy(json.disposable) THEN [valid |-> FALSE, reason |-> "disposable"]
    ELSE IF json.mx # Undefined /\ falsy(json.mx) THEN [valid |-> FALSE, reason |-> "mx"]
    ELSE [valid |-> TRUE, reason |-> "null"]

\* strategy A that takes a message-only body for a format failure
verifyMailMessageAsFormat(json) ==
    IF json.email_address = Undefined THEN [valid |-> FALSE, reason |-> "format"]
    ELSE IF json.deliverable_email # Undefined /\ falsy(json.deliverable_email)
         THEN [valid |-> FALSE, reason |-> "smtp"]
    ELSE IF ~falsy(json.disposable) THEN [valid |-> FALSE, reason |-> "disposable"]
    ELSE IF json.mx # Undefined /\ falsy(json.mx) THEN [valid |-> FALSE, reason |-> "mx"]
    ELSE [valid |-> TRUE, reason |-> "null"]

\* strategy A with the disposable flag tested before the deliverability flag
verifyMailDisposableFirst(json) ==
    IF Cardinality(keys(json)) = 1 /\ "message" \in keys(json) THEN [valid |-> FALSE, reason |-> "null"]
    ELSE IF json.email_address = Undefined THEN [valid |-> FALSE, reason |-> "format"]
    ELSE IF ~falsy(json.disposable) THEN [valid |-> FALSE, reason |-> "disposable"]
    ELSE IF json.deliverable_email # Undefined /\ falsy(json.deliverable_email)
         THEN [valid |-> FALSE, reason |-> "smtp"]
    ELSE IF json.mx # Undefined /\ falsy(json.mx) THEN [valid |-> FALSE, reason |-> "mx"]
    ELSE [valid |-> TRUE, reason |-> "null"]

\* EmailService.verifyMail, on the body of the response
verifyMail(json) ==
    IF Cardinality(keys(json)) = 1 /\ "message" \in keys(json) THEN [valid |-> FALSE, reason |-> "null"]
    ELSE IF json.email_address = Undefined THEN [valid |-> FALSE, reason |-> "format"]
    ELSE IF json.deliverable_email # Undefined /\ falsy(json.deliverable_email)
         THEN [valid |-> FALSE, reason |-> "smtp"]
    ELSE IF ~falsy(json.disposable) THEN [valid |-> FALSE, reason |-> "disposable"]
    ELSE IF json.mx # Undefined /\ falsy(json.mx) THEN [valid |-> FALSE, reason |-> "mx"]
    ELSE [valid |-> TRUE, reason |-> "null"]

\* the bodies the provider of strategy B (a Truemail instance) answers with; errors
\* that is absent or null reads like errors without fields
TruemailBodies ==
    [email : {Undefined, "a@example.com"},
     success : {Undefined, "true", "false"},
     errors : [regex : {Undefined, "x"}, smtp : {Undefined, "x"}, mx : {Undefined, "x"},
               list_match : {Undefined, "list_blocked"}]]

\* strategy B that tests the mx error before the smtp error
trueMailMxFirst(answer) ==
    IF answer.failed THEN [valid |-> FALSE, reason |-> "network"]
    ELSE LET json == answer.json
         IN  IF json.email = Undefined \/ ~falsy(json.errors.regex) THEN [valid |-> FALSE, reason |-> "format"]
             ELSE IF ~falsy(json.errors.mx) THEN [valid |-> FALSE, reason |-> "mx"]
             ELSE IF ~falsy(json.errors.smtp) THEN [valid |-> FALSE, reason |-> "smtp"]
             ELSE IF falsy(json.success)
                  THEN [valid |-> FALSE,
                        reason |-> IF ~falsy(json.errors.list_match) THEN json.errors.list_match
                                   ELSE "blacklist"]
             ELSE [valid |-> TRUE, reason |-> "null"]

\* strategy B that looks at the success flag before the mx error
trueMailSuccessBeforeMx(answer) ==
    IF answer.failed THEN [valid |-> FALSE, reason |-> "network"]
    ELSE LET json == answer.json
         IN  IF json.email = Undefined \/ ~falsy(json.errors.regex) THEN [valid |-> FALSE, reason |-> "format"]
             ELSE IF ~falsy(json.errors.smtp) THEN [valid |-> FALSE, reason |-> "smtp"]
             ELSE IF falsy(json.success)
                  THEN [valid |-> FALSE,
                        reason |-> IF ~falsy(json.errors.list_match) THEN json.errors.list_match
                                   ELSE "blacklist"]
             ELSE IF ~falsy(json.errors.mx) THEN [valid |-> FALSE, reason |-> "mx"]
             ELSE [valid |-> TRUE, reason |-> "null"]

\* strategy B with a failed request taken as a valid address
trueMailFailureAsValid(answer) ==
    IF answer.failed THEN [valid |-> TRUE, reason |-> "null"]
    ELSE LET json == answer.json
         IN  IF json.email = Undefined \/ ~falsy(json.errors.regex) THEN [valid |-> FALSE, reason |-> "format"]
             ELSE IF ~falsy(json.errors.smtp) THEN [valid |-> FALSE, reason |-> "smtp"]
             ELSE IF ~falsy(json.errors.mx) THEN [valid |-> FALSE, reason |-> "mx"]
             ELSE IF falsy(json.success)
                  THEN [valid |-> FALSE,
                        reason |-> IF ~falsy(json.errors.list_match) THEN json.errors.list_match
                                   ELSE "blacklist"]
             ELSE [valid |-> TRUE, reason |-> "null"]

\* EmailService.trueMail: the request or the reading of its body failed (the catch),
\* or the body of the response
trueMail(answer) ==
    IF answer.failed THEN [valid |-> FALSE, reason |-> "network"]
    ELSE LET json == answer.json
         IN  IF json.email = Undefined \/ ~falsy(json.errors.regex) THEN [valid |-> FALSE, reason |-> "format"]
             ELSE IF ~falsy(json.errors.smtp) THEN [valid |-> FALSE, reason |-> "smtp"]
             ELSE IF ~falsy(json.errors.mx) THEN [valid |-> FALSE, reason |-> "mx"]
             ELSE IF falsy(json.success)
                  THEN [valid |-> FALSE,
                        reason |-> IF ~falsy(json.errors.list_match) THEN json.errors.list_match
                                   ELSE "blacklist"]
             ELSE [valid |-> TRUE, reason |-> "null"]

\* what validateEmail of deep-email-validator answers with the regex, MX and
\* disposable checks on (typo and SMTP off)
ValidatorOutcomes ==
    {[valid |-> TRUE, reason |-> "null"]}
    \cup {[valid |-> FALSE, reason |-> r] : r \in {"regex", "mx", "disposable"}}

\* a selection that tries strategy B before strategy A
strategiesRunTruemailFirst(meta) ==
    IF meta.enableActiveEmailValidation
    THEN IF meta.enableTruemailApi /\ ~falsy(meta.truemailInstance) /\ meta.truemailAuthKey # JsNull
         THEN <<"trueMail">>
         ELSE IF meta.enableVerifymailApi /\ meta.verifymailAuthKey # JsNull
         THEN <<"verifyMail">>
         ELSE <<"validateEmail">>
    ELSE <<>>

\* the strategies validateEmailForAccount calls under the settings, in order
strategiesRun(meta) ==
    IF meta.enableActiveEmailValidation
    THEN IF meta.enableVerifymailApi /\ meta.verifymailAuthKey # JsNull
         THEN <<"verifyMail">>
         ELSE IF meta.enableTruemailApi /\ ~falsy(meta.truemailInstance) /\ meta.truemailAuthKey # JsNull
         THEN <<"trueMail">>
         ELSE <<"validateEmail">>
    ELSE <<>>

\* what the provider or library of a strategy can answer: a body, or (the remote
\* ones) a request that fails
Answers(ran) ==
    IF ran = <<"verifyMail">>
    THEN {[failed |-> FALSE, json |-> j] : j \in VerifymailBodies} \cup {[failed |-> TRUE, json |-> NoJson]}
    ELSE IF ran = <<"trueMail">>
    THEN {[failed |-> FALSE, json |-> j] : j \in TruemailBodies} \cup {[failed |-> TRUE, json |-> NoJson]}
    ELSE IF ran = <<"validateEmail">>
    THEN {[failed |-> FALSE, json |-> j] : j \in ValidatorOutcomes}
    ELSE {NoAnswer}

\* validated after the selection: the outcome of the strategy that ran, else the
\* initial { valid: true, reason: null }
validatedBy(ran, answer) ==
    IF ran = <<"verifyMail">> THEN verifyMail(answer.json)
    ELSE IF ran = <<"trueMail">> THEN trueMail(answer)
    ELSE IF ran = <<"validateEmail">> THEN answer.json
    ELSE [valid |-> TRUE, reason |-> "null"]

\* the profiles a check can meet: none, or one with the address, verified or not
CheckInit ==
    /\ instance \in CheckMetas
    /\ now = 0
    /\ \E holder \in {"none", "verified", "unverified"} :
          /\ users = IF holder = "none" THEN {}
                     ELSE {[id |-> 1, username |-> "alice", usernameLower |-> "alice", ticket |-> Null]}
          /\ profiles = IF holder = "none" THEN {}
                        ELSE {[userId |-> 1, email |-> "a@example.com",
                               emailVerified |-> (holder = "verified"), emailVerifyCode |-> Null]}
    /\ tickets = [t \in TicketIds |->
                    [code |-> TicketCode(t), expiresAt |-> Null, usedAt |-> Null, usedById |-> Null,
                     pendingUserId |-> Null]]
    /\ pendings = {}
    /\ deleting = {}
    /\ mails = {}
    /\ nextUserId = 2
    /\ nextPendingId = 1
    /\ call = [p \in Procs |-> IdleCall]
    /\ signedIn = {}
    /\ probe = NoProbe

\* EmailService.validateEmailForAccount: a verified profile with the address ends the
\* call before a strategy runs; a request of strategy A that fails is thrown on
CheckCall ==
    /\ probe.calls < 1
    /\ \E emailAddress \in {"a@example.com"}, isBanned \in BOOLEAN :
          LET exist == Cardinality({pr \in profiles : pr.emailVerified /\ pr.email = emailAddress})
              ran == IF exist # 0 THEN <<>> ELSE strategiesRun(instance)
          IN  \E answer \in Answers(ran) :
                LET threw == ran = <<"verifyMail">> /\ answer.failed
                    validated == IF threw THEN NoProbe.validated ELSE validatedBy(ran, answer)
                IN  probe' = [NoProbe EXCEPT
                                 !.calls = 1,
                                 !.emailAddress = emailAddress,
                                 !.ran = ran,
                                 !.answer = answer,
                                 !.validated = validated,
                                 !.threw = threw,
                                 !.res = IF threw THEN NoRes
                                         ELSE validateEmailForAccount(emailAddress, validated, isBanned)]
    /\ UNCHANGED <<signedIn, now, store, call>>

\* signup on an instance that requires email confirmation: its email gate makes the
\* check call, and a check that fails instead of answering ends the signup with it
CheckSignup ==
    /\ probe.calls < 1
    /\ \E emailAddress \in {"a@example.com"}, isBanned \in BOOLEAN :
          LET exist == Cardinality({pr \in profiles : pr.emailVerified /\ pr.email = emailAddress})
              ran == IF exist # 0 THEN <<>> ELSE strategiesRun(instance)
          IN  \E answer \in Answers(ran) :
                LET threw == ran = <<"verifyMail">> /\ answer.failed
                    validated == IF threw THEN NoProbe.validated ELSE validatedBy(ran, answer)
                IN  /\ IF threw THEN SignupCheckThrows(1, "bob", Undefined, emailAddress)
                       ELSE SignupStart(1, "bob", Undefined, emailAddress, TRUE, validated, isBanned)
                    /\ probe' = [NoProbe EXCEPT
                                    !.calls = 1,
                                    !.emailAddress = emailAddress,
                                    !.ran = ran,
                                    !.answer = answer,
                                    !.validated = validated,
                                    !.threw = threw,
                                    !.before = <<users, pendings, tickets, mails>>,
                                    !.res = IF threw THEN NoRes
                                            ELSE validateEmailForAccount(emailAddress, validated, isBanned)]

CheckNext ==
    \/ CheckCall
    \/ CheckSignup
    \/ SignupUsername(1) /\ UNCHANGED probe
    \/ SignupInsert(1) /\ UNCHANGED probe
    \/ SignupClaim(1) /\ UNCHANGED probe

CheckSpec == CheckInit /\ [][CheckNext]_vars

\* ------------------------------------------------------------------ properties
ClosedDirect == instance.disableRegistration /\ ~instance.emailRequiredForSignup
ClosedPending == instance.disableRegistration /\ instance.emailRequiredForSignup

\* C1: on a closed instance without email confirmation, of the signups that present
\* the same ticket at most one creates an account (the others are rejected)
C1_OneAccountPerTicketDirect ==
    ClosedDirect =>
        \A u1, u2 \in users : (u1.ticket # Null /\ u1.ticket = u2.ticket) => u1 = u2

\* C2: once a ticket's usedBy is set to an account, it stays that account
C2_UsedByPermanent ==
    [][\A t \in TicketIds : tickets[t].usedById # Null => tickets'[t].usedById = tickets[t].usedById]_vars

\* the positions of a signup that has passed the ticket gate
PastTicketGate == {"s_username", "s_insert", "s_claim", "s_create", "s_consume"}
\* the answers of signup that are rejections of the gate with a bare bad request
GateRejections == {"400", "400:captcha"}

\* a signup called when the ticket of its code was consumed is rejected with a bad
\* request, at the ticket gate at the latest (or it has failed before that gate with
\* the failure of its email check)
RejectedAsConsumed(p) ==
    (call[p].op = "signup" /\ call[p].usedAtCall) =>
        /\ call[p].pc \notin PastTicketGate
        /\ call[p].pc = "idle" => call[p].result \in GateRejections \cup {"500"}

\* C3 (as claimed): once a ticket's usedBy is set, every later signup with its code
\* fails with a bad request, whatever the policy of the instance
C3_ConsumedTicketRejected == \A p \in Procs : RejectedAsConsumed(p)

\* C3 (amended): the same, on an instance whose registration is closed
C3_ConsumedTicketRejectedWhenClosed ==
    instance.disableRegistration => \A p \in Procs : RejectedAsConsumed(p)

\* C3 witness: on a closed instance without email confirmation a signup called with
\* the code of a consumed ticket has been answered 400 (by the ticket gate: the
\* captcha passed, and there is no email gate)
C3_Witness ==
    \E p \in Procs : /\ ClosedDirect
                     /\ call[p].op = "signup" /\ call[p].usedAtCall
                     /\ call[p].pc = "idle" /\ call[p].result = "400"

\* C4: an account created by a ticket-gated direct signup never exists while its
\* ticket still has usedAt or usedBy null
C4_ConsumedWithCreation ==
    ~instance.emailRequiredForSignup =>
        \A u \in users : u.ticket # Null =>
            tickets[u.ticket].usedAt # Null /\ tickets[u.ticket].usedById # Null

\* C5: on a closed instance with email confirmation there are never two pending
\* registrations, both younger than the window, admitted with the same ticket
C5_OnePendingPerTicket ==
    ClosedPending =>
        \A r1, r2 \in pendings :
            (r1.ticket # Null /\ r1.ticket = r2.ticket /\ now < r1.date + Window /\ now < r2.date + Window)
                => r1 = r2

\* the answers of a signupPending call that failed with NotFound and with Expired
NotFound == "400:EntityNotFoundError: Could not find any entity of type UserPending"
Expired == "400:Error: EXPIRED"

\* signupPending calls in flight that have created their account
Created(p) == call[p].op = "signupPending" /\ call[p].account # Null

\* C6: of two signupPending calls with the same code, the one that does not create
\* the account fails with NotFound or Expired
C6_SecondRedemptionNotFound ==
    [][\A p, q \in Procs :
         (/\ p # q
          /\ Created(p)
          /\ call[q].pc = "p_create"
          /\ call[q].pendingUser.id = call[p].pendingUser.id
          /\ call'[q].pc = "idle")
         => call'[q].result \in {NotFound, Expired}]_vars

\* C7: a signupPending call that starts after a call with the same code has returned
\* a session fails with NotFound: its lookup does not find the record
C7_GoneWhenReturned ==
    [][\A q \in Procs :
         (call[q].pc = "idle" /\ call'[q].pc = "p_validate")
         => call'[q].pendingUser.id \notin signedIn]_vars

\* C8: the expiry check of a record that is 30 minutes old or older ends the call
\* with Expired
C8_ExpiredAtWindow ==
    [][\A p \in Procs :
         (/\ call[p].pc = "p_validate"
          /\ call'[p].pc # "p_validate"
          /\ now >= call[p].pendingUser.date + Window)
         => call'[p].result = Expired]_vars

\* C9: at the instant signupPending creates the account, the pending registration
\* is not older than 30 minutes
C9_NoAccountFromExpired ==
    [][\A p \in Procs :
         (call[p].pc = "p_create" /\ call'[p].account # Null)
         => now <= call[p].pendingUser.date + Window]_vars

\* unused (0), provisionally claimed (1), consumed (2)
TicketRank(ticket) ==
    IF ticket.usedById # Null THEN 2
    ELSE IF ticket.usedAt # Null \/ ticket.pendingUserId # Null THEN 1
    ELSE 0

\* C10: no step takes a ticket back from consumed to provisionally claimed or
\* unused, nor from provisionally claimed to unused
C10_TicketForwardOnly ==
    [][\A t \in TicketIds : TicketRank(tickets'[t]) >= TicketRank(tickets[t])]_vars

\* C10 witness: a provisional claim was written on a ticket that a completed
\* registration had consumed in the meantime, and the ticket is still consumed
C10_Witness ==
    \E t \in TicketIds : /\ tickets[t].usedById # Null
                         /\ tickets[t].pendingUserId # Null

\* the answer of the username pre-check of signup to a name that an account holds
DuplicatedAtPreCheck == "400:DUPLICATED_USERNAME"

\* the username a handler hands to signupService.signup
CreatedUsername(p) == IF call[p].pc = "p_create" THEN call[p].pendingUser.username ELSE call[p].username

\* C11: no two local accounts ever have the same lower-cased username, and a signup
\* or signupPending call whose account creation meets an account of that username is
\* answered as the username pre-check answers a duplicate (400, DUPLICATED_USERNAME)
C11_UniqueUsernameSameCause ==
    /\ [](\A u1, u2 \in users : u1.usernameLower = u2.usernameLower => u1 = u2)
    /\ [][\A p \in Procs :
            (/\ call[p].pc \in {"s_create", "p_create"}
             /\ call'[p] # call[p]
             /\ \E u \in users : u.usernameLower = toLowerCase(CreatedUsername(p)))
            => call'[p].result = DuplicatedAtPreCheck]_vars

\* the names that differ only in letter case, by class
NameClasses == {{"Alice", "alice"}, {"bob"}, {"Old", "old"}, {"Admin", "admin"}, {"Root", "root"}}
CaseVariants(username) == CHOOSE c \in NameClasses : username \in c

\* the username step of handler 1 is taken
UsernameStep == call[1].pc = "s_username" /\ call'[1].pc # "s_username"

\* C12: the username checks answer a submitted name as they would answer each name
\* that differs from it only in letter case: the same cause, or all let through
C12_CaseInsensitive ==
    [][UsernameStep =>
         \A v \in CaseVariants(call[1].username) :
             IF UsernameRejected(v) = "none" THEN call'[1].pc = "s_insert"
             ELSE call'[1].pc = "idle" /\ call'[1].result = "400:" \o UsernameRejected(v)]_vars

\* C12 witness: "Alice" was rejected as duplicated where the account is named "alice"
C12_Witness ==
    /\ probe.username = "Alice"
    /\ call[1].pc = "idle" /\ call[1].result = "400:DUPLICATED_USERNAME"
    /\ \E u \in users : u.username = "alice"

\* C13: on an instance that requires email confirmation the username step rejects a
\* name that a local account holds as duplicated; else a name among the used names as
\* used; else a name of the reserved list as denied; else it lets the call through
C13_UsernameCauseOrder ==
    [][UsernameStep =>
         LET held == \E u \in users : u.username \in CaseVariants(call[1].username)
             used == \E x \in usedUsernames : x \in CaseVariants(call[1].username)
             reserved == \E x \in preservedUsernames : x \in CaseVariants(call[1].username)
             cause == IF call'[1].pc = "idle" THEN call'[1].result ELSE "passed"
         IN  /\ instance.emailRequiredForSignup
             /\ held => cause = "400:DUPLICATED_USERNAME"
             /\ (~held /\ used) => cause = "400:USED_USERNAME"
             /\ (~held /\ ~used /\ reserved) => cause = "400:DENIED_USERNAME"
             /\ (~held /\ ~used /\ ~reserved) => cause = "passed"]_vars

\* C13 witness: a name that is both among the used names and in the reserved list
\* was rejected as used
C13_Witness ==
    /\ probe.username \in {"Admin", "admin"}
    /\ call[1].pc = "idle" /\ call[1].result = "400:USED_USERNAME"

\* the gate failure a rejection belongs to: the missing code and the ticket checks are
\* failures of the ticket
FailureOf(rejected) == IF rejected \in {"code", "ticket"} THEN "ticket" ELSE rejected

\* C14: two signup calls rejected for different gate failures (email, ticket, one of
\* the username causes) are not given the same response
C14_DistinctCauses ==
    (/\ probe.calls = 2 /\ call[1].pc = "idle"
     /\ probe.rejected # "none" /\ probe.first.rejected # "none"
     /\ FailureOf(probe.rejected) # FailureOf(probe.first.rejected))
    => call[1].result # probe.first.result

\* the start of a call of handler 1, and its ticket step
StartStep == call[1].pc = "idle" /\ call'[1] # call[1]
TicketStep == call[1].pc = "s_ticket" /\ call'[1].pc # "s_ticket"
\* the tickets the code of the call resolves to
Presented == {t \in TicketIds : tickets[t].code = call[1].invitationCode}
\* the ticket step rejected the call with a bad request
TicketStepRejects == call'[1].pc = "idle" /\ call'[1].result = "400"

\* C15: on an instance whose registration is closed a signup goes from its start only
\* to the ticket step, and only with an invitation code; it passes the ticket step
\* only if the code resolves to a ticket that is not consumed and whose expiresAt, if
\* any, is not earlier than now; an unknown code and an expired ticket are rejected
\* with a bad request
C15_TicketStepClosed ==
    [][instance.disableRegistration =>
         /\ StartStep => \/ call'[1].pc = "idle" /\ call'[1].result \in {"400", "400:captcha", "500"}
                         \/ call'[1].pc = "s_ticket" /\ call'[1].invitationCode # Undefined
         /\ (TicketStep /\ ~TicketStepRejects) =>
                /\ call'[1].pc \in PastTicketGate
                /\ Presented # {}
                /\ \A t \in Presented : /\ tickets[t].usedById = Null
                                         /\ (tickets[t].expiresAt = Null \/ tickets[t].expiresAt >= now)
         /\ (TicketStep /\ Presented = {}) => TicketStepRejects
         /\ (TicketStep /\ \E t \in Presented : tickets[t].expiresAt # Null /\ tickets[t].expiresAt < now)
                => TicketStepRejects]_vars

\* C15 witness: an unused ticket whose expiresAt is earlier than now was presented
\* and the call rejected at the ticket step
C15_Witness ==
    /\ instance.disableRegistration
    /\ probe.invitationCode = "t1" /\ probe.rejected = "ticket"
    /\ call[1].pc = "idle" /\ call[1].result = "400"
    /\ tickets[1].usedAt = Null /\ tickets[1].expiresAt # Null /\ tickets[1].expiresAt < now

\* the ticket presented is provisionally claimed
Claimed(t) == tickets[t].usedAt # Null /\ tickets[t].usedById = Null

\* C16 (as claimed): on a closed instance that requires email confirmation the ticket
\* step rejects a provisionally claimed ticket if and only if the claim was stamped
\* less than 30 minutes before now
C16_ClaimHeldFor30Minutes ==
    [][(ClosedPending /\ TicketStep) =>
         \A t \in Presented : Claimed(t) => (TicketStepRejects <=> now - tickets[t].usedAt < Window)]_vars

\* C16 (amended): the same, for a ticket whose expiresAt, if any, is not earlier than now
C16_ClaimHeldFor30MinutesUnexpired ==
    [][(ClosedPending /\ TicketStep) =>
         \A t \in Presented :
             (Claimed(t) /\ (tickets[t].expiresAt = Null \/ tickets[t].expiresAt >= now))
                 => (TicketStepRejects <=> now - tickets[t].usedAt < Window)]_vars

\* C16 witness: a ticket claimed exactly 30 minutes ago was presented and the call is
\* past the ticket step
C16_Witness ==
    /\ ClosedPending
    /\ call[1].pc = "s_username" /\ call[1].ticket = 1
    /\ Claimed(1) /\ now - tickets[1].usedAt = Window

\* C17: on a closed instance that does not require email confirmation the ticket step
\* rejects every ticket whose usedAt is set
C17_UsedAtRejected ==
    [][(ClosedDirect /\ TicketStep) =>
         \A t \in Presented : tickets[t].usedAt # Null => TicketStepRejects]_vars

\* C17 witness: a ticket with usedAt set, usedBy null and a pending registration
\* linked was presented and the call rejected at the ticket step
C17_Witness ==
    /\ ClosedDirect
    /\ probe.invitationCode = "t1" /\ probe.rejected = "ticket"
    /\ call[1].pc = "idle" /\ call[1].result = "400"
    /\ Claimed(1) /\ tickets[1].pendingUserId # Null
    /\ tickets[1].expiresAt = Null

\* the call observed is over
Answered == probe.calls = 1 /\ call[1].op = "signup" /\ call[1].pc = "idle"

\* C18: on an instance that requires email confirmation, a signup (past the captcha)
\* without an email address, or whose address validateEmailForAccount answers with
\* available false, whatever the reason, is answered 400 at its start: it never gets
\* to the ticket step or the username step
C18_EmailGate ==
    (/\ instance.emailRequiredForSignup
     /\ probe.calls = 1 /\ probe.captchaOk
     /\ probe.emailAddress = Undefined \/ ~probe.res.available)
    => /\ call[1].pc = "idle" /\ call[1].result = "400"
       /\ probe.rejected = "email"

\* C18 witness: an address that the strategy refused without a reason (available
\* false, reason null) was rejected
C18_Witness ==
    /\ instance.emailRequiredForSignup
    /\ probe.emailAddress = "a@example.com"
    /\ probe.res = [available |-> FALSE, reason |-> "null"]
    /\ call[1].pc = "idle" /\ call[1].result = "400"

\* C19: when a signup call has been rejected by a gate step (captcha, email, ticket
\* or username), the accounts, the pending registrations, the tickets and the mails
\* sent are what they were when it was called
C19_GateLeavesStore ==
    (Answered /\ probe.rejected # "none") => <<users, pendings, tickets, mails>> = probe.before

\* C19 witness: a call was rejected at the last gate step, the username checks
\* (as denied), and the store is what it was
C19_Witness ==
    /\ Answered /\ probe.rejected = "DENIED_USERNAME"
    /\ call[1].result = "400:DENIED_USERNAME"
    /\ <<users, pendings, tickets, mails>> = probe.before

\* C20: on an instance that requires email confirmation, a signup call that passes
\* the gate answers 204 without an account, and from its call on the accounts are
\* what they were: none of them has its username
C20_PendingPathNoAccount ==
    (/\ instance.emailRequiredForSignup
     /\ probe.calls = 1 /\ call[1].op = "signup" /\ probe.rejected = "none")
    => /\ users = probe.before[1]
       /\ call[1].account = Null
       /\ call[1].pc = "idle" =>
              /\ call[1].result = "204"
              /\ \A u \in users : u.usernameLower # toLowerCase(probe.username)

\* C20 witness: a signup was answered 204, its pending registration is stored and
\* the accounts are what they were
C20_Witness ==
    /\ instance.emailRequiredForSignup
    /\ Answered /\ call[1].result = "204"
    /\ \E r \in pendings : r.username = probe.username /\ r.id # Bob.id
    /\ users = probe.before[1]

\* C21: on an instance that requires email confirmation and has registration open,
\* a signup past the captcha with an available email address and a username that no
\* account, used name or reserved name matches answers 204; it has then created
\* exactly one pending registration and dispatched exactly one email, to its address,
\* whose link is <instance url>/signup-complete/<code of that pending registration>
C21_OnePendingOneMail ==
    (/\ instance.emailRequiredForSignup /\ ~instance.disableRegistration
     /\ Answered /\ probe.captchaOk
     /\ probe.emailAddress # Undefined /\ probe.res.available /\ ~probe.threw
     /\ UsernameRejected(probe.username) = "none")
    => /\ call[1].result = "204"
       /\ \E r \in pendings \ probe.before[2] :
             /\ pendings \ probe.before[2] = {r}
             /\ mails \ probe.before[4] =
                    {[to |-> probe.emailAddress,
                      link |-> [url |-> ConfigUrl, path |-> "/signup-complete/", code |-> r.code]]}

\* C22: in every reachable state a ticket that is linked to a pending registration
\* (pendingUserId not null) has usedAt set: the provisional claim writes both in one update
C22_LinkedTicketIsStamped ==
    \A t \in TicketIds : tickets[t].pendingUserId # Null => tickets[t].usedAt # Null

\* C22 witness: a signup answered 204 and the ticket it was admitted with is linked to
\* a stored pending registration and stamped
C22_Witness ==
    \E p \in Procs, t \in TicketIds, r \in pendings :
        /\ call[p].op = "signup" /\ call[p].pc = "idle" /\ call[p].result = "204"
        /\ r.ticket = t /\ tickets[t].pendingUserId = r.id
        /\ tickets[t].usedAt # Null /\ tickets[t].usedById = Null

\* the observed signupPending call returned a session for a new account that has
\* the username of the pending registration it found, and the profile of that account
\* has the pending registration's email, verified, and no verification code
Completed ==
    /\ call[1].op = "signupPending" /\ call[1].pc = "idle" /\ call[1].result = "signin"
    /\ \E u \in users \ probe.before[1] :
          /\ u.username = probe.pendingUser.username
          /\ \E pr \in profiles :
                /\ pr.userId = u.id
                /\ pr.email = probe.pendingUser.email
                /\ pr.emailVerified
                /\ pr.emailVerifyCode = Null

\* the observed call ended with the bad request of a failed account creation, and
\* the accounts are what they were
CreationFailed ==
    /\ call[1].op = "signupPending" /\ call[1].pc = "idle"
    /\ call[1].result \in {"400:ValidationError: DUPLICATED_USERNAME", "400:ValidationError: INVALID"}
    /\ users = probe.before[1]

\* the observed call has found the pending registration of its code, less than 30
\* minutes after that was created
FoundInWindow ==
    /\ call[1].op = "signupPending" /\ call[1].pc = "p_validate"
    /\ now < call[1].pendingUser.date + Window

\* C23 (as stated): a signupPending call with the code of an existing pending
\* registration, made within the 30 minutes and without a competing request,
\* eventually returns a session for a new account with the pending registration's
\* username, whose profile has its email, verified, with the verification code cleared
C23_CompletionReturnsSession == FoundInWindow ~> Completed

\* C23 (amended): such a call eventually returns that session, or, when the account
\* collaborator fails to create the account, ends with the bad request of that failure
C23_CompletionReturnsSessionIfCreated == FoundInWindow ~> (Completed \/ CreationFailed)

\* C23 witness: the call returned a session for the account made from Bob's pending
\* registration, one millisecond before the end of the window
C23_Witness ==
    /\ Completed
    /\ probe.pendingUser.id = Bob.id /\ now = Window - 1
    /\ \E u \in users : u.username = "bob"

\* C24: when the observed signupPending call has returned a session and a ticket
\* referenced the pending registration it redeemed, that ticket has usedById set to
\* the account the call created and pendingUserId cleared; its other fields (usedAt
\* among them) and every other ticket are what they were at the call
C24_TicketFinalized ==
    \A t \in DOMAIN tickets :
        (/\ call[1].op = "signupPending" /\ call[1].pc = "idle" /\ call[1].result = "signin"
         /\ probe.before[3][t].pendingUserId = probe.pendingUser.id)
        => /\ \E u \in users \ probe.before[1] :
                 tickets[t] = [probe.before[3][t] EXCEPT !.usedById = u.id, !.pendingUserId = Null]
           /\ \A o \in DOMAIN tickets \ {t} : tickets[o] = probe.before[3][o]

\* C24 witness: the call redeemed Bob's pending registration, which ticket 1
\* referenced; ticket 1 is consumed by the new account with the stamp of its claim,
\* and ticket 2 is still claimed for Dave
C24_Witness ==
    /\ call[1].op = "signupPending" /\ call[1].pc = "idle" /\ call[1].result = "signin"
    /\ probe.pendingUser = Bob /\ probe.before[3][1].pendingUserId = Bob.id
    /\ tickets[1].usedById # Null /\ tickets[1].pendingUserId = Null /\ tickets[1].usedAt = 0
    /\ now # 0
    /\ tickets[2].pendingUserId = Dave.id /\ tickets[2].usedById = Null

\* the names Error.prototype.toString puts before a message, and none
ErrorNames == {"", "Error: ", "ValidationError: ", "EntityNotFoundError: "}
\* the answer is a bad request whose cause carries the message
Carries(result, message) == \E name \in ErrorNames : result = "400:" \o name \o message

\* C25: a step that ends a signupPending call without a session answers one bad
\* request that carries the message of the failure of that step (no pending
\* registration of the code, EXPIRED, the account collaborator's message, no profile
\* of the account), and no session is established by it
C25_FailureIsBadRequest ==
    [][\A p \in Procs :
         (/\ call'[p].op = "signupPending" /\ call'[p].pc = "idle"
          /\ call'[p] # call[p]
          /\ call'[p].result # "signin")
         => /\ signedIn' = signedIn
            /\ \/ call[p].pc = "idle"
                  /\ Carries(call'[p].result, "Could not find any entity of type UserPending")
               \/ call[p].pc = "p_validate"
                  /\ Carries(call'[p].result, "EXPIRED")
               \/ call[p].pc = "p_create"
                  /\ \E accepted \in BOOLEAN :
                        LET r == signupServiceSignup(call[p].pendingUser.username, accepted)
                        IN  ~r.ok /\ Carries(call'[p].result, r.error.message)
               \/ call[p].pc = "p_profile"
                  /\ Carries(call'[p].result, "Could not find any entity of type UserProfile")]_vars

\* C25 witness: a signupPending call ended on the account collaborator's failure with
\* the bad request that carries DUPLICATED_USERNAME, and its pending registration
\* got no session
C25_Witness ==
    \E p \in Procs :
        /\ call[p].op = "signupPending" /\ call[p].pc = "idle"
        /\ call[p].result = "400:ValidationError: DUPLICATED_USERNAME"
        /\ \E r \in pendings : r.id \notin signedIn /\ \E u \in users : u.username = r.username

\* C26: on an instance without email confirmation, when the observed signup call
\* passed the gate and the account collaborator failed to create the account, the
\* call has answered a bad request that carries the collaborator's message, the
\* accounts are what they were (none was made for the request) and so are the
\* tickets: the ticket the call was admitted with is still unused and would be
\* admitted again
C26_DirectFailureLeavesTicket ==
    (/\ ~instance.emailRequiredForSignup
     /\ Answered /\ probe.rejected = "none"
     /\ call[1].result # "200")
    => /\ \E m \in {"DUPLICATED_USERNAME", "INVALID"} : Carries(call[1].result, m)
       /\ users = probe.before[1]
       /\ tickets = probe.before[3]
       /\ \A t \in TicketIds :
             (instance.disableRegistration /\ tickets[t].code = probe.invitationCode)
             => /\ tickets[t].usedAt = Null /\ tickets[t].usedById = Null
                /\ tickets[t].pendingUserId = Null
                /\ (tickets[t].expiresAt = Null \/ tickets[t].expiresAt >= now)

\* C26 witness: on a closed instance a signup admitted with ticket t1 ended with the
\* bad request of the collaborator's failure; no account was made and t1 is unused
C26_Witness ==
    /\ ClosedDirect
    /\ Answered /\ probe.rejected = "none" /\ probe.invitationCode = "t1"
    /\ call[1].result = "400:ValidationError: INVALID"
    /\ users = probe.before[1]
    /\ tickets[1].usedAt = Null /\ tickets[1].usedById = Null

\* the address of the observed check is the email of a verified profile
UsedByVerified == \E pr \in profiles : pr.emailVerified /\ pr.email = probe.emailAddress
\* strategy A's key is configured; strategy B's instance URL and key are configured
KeyAConfigured == instance.verifymailAuthKey # JsNull
UrlAndKeyBConfigured ==
    instance.truemailInstance \notin {JsNull, ""} /\ instance.truemailAuthKey # JsNull

\* C27 (as stated): under every configuration a check call runs exactly one strategy:
\* A when its key is configured, otherwise B when its instance URL and key are
\* configured, otherwise the local validator
C27_OneStrategyByKeys ==
    probe.calls = 1
    => probe.ran = IF KeyAConfigured THEN <<"verifyMail">>
                   ELSE IF UrlAndKeyBConfigured THEN <<"trueMail">>
                   ELSE <<"validateEmail">>

\* C27 (amended): with active email validation enabled and an address that no
\* verified profile uses, a check call runs exactly one strategy: A when A is enabled
\* and its key is configured, otherwise B when B is enabled and its instance URL and
\* key are configured, otherwise the local validator; with active validation
\* disabled, or an address a verified profile uses, it runs none
C27_OneStrategyWhenActive ==
    probe.calls = 1
    => probe.ran = IF ~instance.enableActiveEmailValidation \/ UsedByVerified THEN <<>>
                   ELSE IF instance.enableVerifymailApi /\ KeyAConfigured THEN <<"verifyMail">>
                   ELSE IF instance.enableTruemailApi /\ UrlAndKeyBConfigured THEN <<"trueMail">>
                   ELSE <<"validateEmail">>

\* C27 witness: with both remote strategies enabled and configured, the check ran
\* strategy A and nothing else
C27_Witness ==
    /\ probe.calls = 1 /\ ~UsedByVerified
    /\ instance.enableActiveEmailValidation
    /\ instance.enableVerifymailApi /\ KeyAConfigured
    /\ instance.enableTruemailApi /\ UrlAndKeyBConfigured
    /\ probe.ran = <<"verifyMail">>

\* the observed check ran strategy A (B) and its provider answered with a body
AnsweredByA == probe.calls = 1 /\ probe.ran = <<"verifyMail">> /\ ~probe.answer.failed
AnsweredByB == probe.calls = 1 /\ probe.ran = <<"trueMail">> /\ ~probe.answer.failed
\* message is the only field of the body
MessageOnly(json) == \A k \in DOMAIN json : json[k] # Undefined <=> k = "message"

\* C28: when strategy A's response has message as its only field, the outcome of
\* the strategy is { valid: false, reason: null } and validateEmailForAccount answers
\* available false with reason null (the check ran the strategy, so the address is
\* not used by a verified profile)
C28_MessageOnlyReasonNull ==
    (AnsweredByA /\ MessageOnly(probe.answer.json))
    => /\ probe.validated = [valid |-> FALSE, reason |-> "null"]
       /\ probe.res = [available |-> FALSE, reason |-> "null"]

\* C28 witness: strategy A answered { message: "quota exceeded" } for an address
\* that an unverified profile holds, and the check answered available false, reason null
C28_Witness ==
    /\ AnsweredByA /\ MessageOnly(probe.answer.json)
    /\ probe.answer.json.message = "quota exceeded"
    /\ \E pr \in profiles : pr.email = probe.emailAddress /\ ~pr.emailVerified
    /\ probe.res = [available |-> FALSE, reason |-> "null"]

\* C29 (as stated): a response of strategy A that is not message-only and has no
\* deliverability field (deliverable_email) gives { valid: false, reason: format }
C29_NoDeliverabilityIsFormat ==
    (/\ AnsweredByA /\ ~MessageOnly(probe.answer.json)
     /\ probe.answer.json.deliverable_email = Undefined)
    => probe.validated = [valid |-> FALSE, reason |-> "format"]

\* C29 (amended): a response of strategy A that is not message-only and has no
\* address echo field (email_address) gives { valid: false, reason: format },
\* whatever its other fields are
C29_NoAddressEchoIsFormat ==
    (/\ AnsweredByA /\ ~MessageOnly(probe.answer.json)
     /\ probe.answer.json.email_address = Undefined)
    => probe.validated = [valid |-> FALSE, reason |-> "format"]

\* C29 witness: a response without the address echo that says deliverable, with an MX
\* record and not disposable, gave format
C29_Witness ==
    /\ AnsweredByA
    /\ probe.answer.json.email_address = Undefined
    /\ probe.answer.json.deliverable_email = "true"
    /\ probe.answer.json.mx = "true" /\ probe.answer.json.disposable = "false"
    /\ probe.validated = [valid |-> FALSE, reason |-> "format"]

\* C30: for every response of strategy B (email echo present or absent, success
\* true or false, each of errors.regex, errors.smtp, errors.mx, errors.list_match
\* present or absent) the outcome is format if the echo is missing or a regex error
\* is present; else smtp if an smtp error is present; else mx if an mx error is
\* present; else, if success is false, the list_match detail, or blacklist without
\* one; else valid with reason null
C30_TruemailTable ==
    (AnsweredByB /\ probe.answer.json.success \in {"true", "false"})
    => LET json == probe.answer.json
       IN  probe.validated =
               IF json.email = Undefined \/ json.errors.regex # Undefined
               THEN [valid |-> FALSE, reason |-> "format"]
               ELSE IF json.errors.smtp # Undefined THEN [valid |-> FALSE, reason |-> "smtp"]
               ELSE IF json.errors.mx # Undefined THEN [valid |-> FALSE, reason |-> "mx"]
               ELSE IF json.success = "false"
                    THEN IF json.errors.list_match # Undefined
                         THEN [valid |-> FALSE, reason |-> json.errors.list_match]
                         ELSE [valid |-> FALSE, reason |-> "blacklist"]
               ELSE [valid |-> TRUE, reason |-> "null"]

\* C30 witness: a response with the echo, an smtp error and an mx error, success
\* false and a list_match detail gave smtp
C30_Witness ==
    /\ AnsweredByB
    /\ probe.answer.json.email # Undefined /\ probe.answer.json.success = "false"
    /\ probe.answer.json.errors =
           [regex |-> Undefined, smtp |-> "x", mx |-> "x", list_match |-> "list_blocked"]
    /\ probe.validated = [valid |-> FALSE, reason |-> "smtp"]

\* C31 (as stated): every response of strategy B with a structured mx error
\* (errors.mx set) gives { valid: false, reason: mx }, whatever its other fields are
C31_MxErrorIsMx ==
    (AnsweredByB /\ probe.answer.json.errors.mx # Undefined)
    => probe.validated = [valid |-> FALSE, reason |-> "mx"]

\* C31 (amended): every response of strategy B with a structured mx error that has
\* the email echo, no regex error and no smtp error gives { valid: false, reason: mx },
\* whatever its success flag and list_match detail are
C31_MxErrorIsMxAfterFormatAndSmtp ==
    (/\ AnsweredByB /\ probe.answer.json.errors.mx # Undefined
     /\ probe.answer.json.email # Undefined
     /\ probe.answer.json.errors.regex = Undefined
     /\ probe.answer.json.errors.smtp = Undefined)
    => probe.validated = [valid |-> FALSE, reason |-> "mx"]

\* C31 witness: a response with the echo and an mx error, success false and a
\* list_match detail gave mx
C31_Witness ==
    /\ AnsweredByB
    /\ probe.answer.json.email # Undefined /\ probe.answer.json.success = "false"
    /\ probe.answer.json.errors =
           [regex |-> Undefined, smtp |-> Undefined, mx |-> "x", list_match |-> "list_blocked"]
    /\ probe.validated = [valid |-> FALSE, reason |-> "mx"]

\* C32: a request of strategy B that fails is answered as the outcome
\* {valid: false, reason: network}; a request of strategy A that fails gives no outcome,
\* the check call fails with it; either way the signup that made the check has ended,
\* and the pending registrations and the accounts are those before it.
C32_TransportFailure ==
    (probe.calls = 1 /\ probe.answer.failed)
    => /\ probe.ran = <<"trueMail">>
          => /\ ~probe.threw
             /\ probe.validated = [valid |-> FALSE, reason |-> "network"]
             /\ probe.res = [available |-> FALSE, reason |-> "network"]
       /\ probe.ran = <<"verifyMail">>
          => /\ probe.threw
             /\ probe.res = NoRes
       /\ call[1].op = "signup"
          => /\ call[1].pc = "idle"
             /\ call[1].result = (IF probe.threw THEN "500" ELSE "400")
             /\ pendings = probe.before[2]
             /\ users = probe.before[1]
             /\ mails = probe.before[4]

\* a signup whose check by strategy B met a failed request was answered 400
C32_Witness ==
    /\ probe.calls = 1 /\ probe.answer.failed /\ probe.ran = <<"trueMail">>
    /\ call[1].op = "signup" /\ call[1].result = "400"
    /\ pendings = {}

\* C33: on a closed instance that requires email confirmation no two accounts were
\* admitted with the same invitation ticket, and there are never more accounts than
\* tickets issued
C33_OneAccountPerTicketPending ==
    ClosedPending =>
        /\ \A t \in TicketIds : Cardinality({u \in users : u.ticket = t}) <= 1
        /\ Cardinality(users) <= Cardinality(TicketIds)

\* C34: whenever the expiry check of signupPending runs on a pending registration
\* whose ticket (the one linked to it, provisionally claimed) would be let through by
\* the ticket gate of signup at that instant, the call ends with Expired
C34_ReclaimOnlyAfterExpiry ==
    [][\A p \in Procs, t \in TicketIds :
         (/\ ClosedPending
          /\ call[p].pc = "p_validate"
          /\ call'[p].pc # "p_validate"
          /\ tickets[t].pendingUserId = call[p].pendingUser.id
          /\ tickets[t].usedAt # Null /\ tickets[t].usedById = Null
          /\ ~TicketRejected(t))
         => call'[p].result = Expired]_vars

\* C35: no two profiles have the same email address with emailVerified true
C35_VerifiedEmailUnique ==
    \A p1, p2 \in profiles :
        (p1.emailVerified /\ p2.emailVerified /\ p1.email = p2.email) => p1 = p2

\* C36: a step that deletes a pending record finds no ticket still referencing it
\* (the ticket was finalized before), and a step that establishes the session of a
\* completion leaves no pending record of that registration in the store
C36_FinalizeDeleteSession ==
    [][/\ \A r \in pendings \ pendings' :
             \A t \in DOMAIN tickets : tickets[t].pendingUserId # r.id
       /\ \A id \in signedIn' \ signedIn :
             \A r \in pendings' : r.id # id]_vars

\* C37: when the observed signupPending call has failed because no pending record
\* has the code, or because the record found is expired, the accounts, the pending
\* records (the expired one among them), the profiles and the tickets are what they
\* were when it was called
C37_FailedCompletionLeavesStore ==
    (/\ probe.calls = 1 /\ call[1].op = "signupPending" /\ call[1].pc = "idle"
     /\ call[1].result \in {NotFound, Expired})
    => /\ users = probe.before[1]
       /\ pendings = probe.before[2]
       /\ tickets = probe.before[3]
       /\ profiles = probe.before[5]

\* the call found Bob's record, older than the window, and answered Expired: the
\* record is still stored
C37_Witness ==
    /\ probe.calls = 1 /\ call[1].op = "signupPending" /\ call[1].pc = "idle"
    /\ call[1].result = Expired
    /\ probe.pendingUser = Bob /\ Bob \in pendings /\ now = Window + 1

\* C38: a response of strategy A that is not message-only and has the address echo
\* gives smtp when the deliverability flag is present and false; else disposable when
\* the disposable flag is set; else mx when the mx flag is present and false; else
\* { valid: true, reason: null }
C38_VerifymailPrecedence ==
    (/\ AnsweredByA /\ ~MessageOnly(probe.answer.json)
     /\ probe.answer.json.email_address # Undefined)
    => probe.validated =
          (IF probe.answer.json.deliverable_email = "false" THEN [valid |-> FALSE, reason |-> "smtp"]
           ELSE IF probe.answer.json.disposable = "true" THEN [valid |-> FALSE, reason |-> "disposable"]
           ELSE IF probe.answer.json.mx = "false" THEN [valid |-> FALSE, reason |-> "mx"]
           ELSE [valid |-> TRUE, reason |-> "null"])

\* C38 witness: a response with the address echo that says undeliverable, disposable
\* and without an MX record gave smtp
C38_Witness ==
    /\ AnsweredByA
    /\ probe.answer.json.email_address # Undefined
    /\ probe.answer.json.deliverable_email = "false"
    /\ probe.answer.json.disposable = "true" /\ probe.answer.json.mx = "false"
    /\ probe.validated = [valid |-> FALSE, reason |-> "smtp"]

====
